---- MODULE Spec2Model ----
(***************************************************************************)
(* Model of sdbus-c++ Object (src/src/Object.cpp): the per-object          *)
(* registry of interfaces, the vtable builder, the slot ownership and the  *)
(* three sd-bus dispatch entry points.                                     *)
(***************************************************************************)
EXTENDS Integers, Sequences, FiniteSets, TLC

(* ---------------------------- bounds ----------------------------------- *)
MaxCalls == 3
\* entry point calls that are under way at once, where sd-bus runs in threads
MaxInFlight == 1

(* ------------------------- input universes ----------------------------- *)
InterfaceNames == {"com.example.Calc", "com.example.Mixer"}
\* member names, listed in std::string (lexicographic) order
MemberNames == <<"Bogus", "Sum", "Volume">>
MemberSet == {MemberNames[k] : k \in 1..Len(MemberNames)}
\* the names the registration calls are made with
MethodNames == {"Sum", "Volume"}
SignalNames == {"Volume"}
PropertyNames == {"Volume"}
\* the member a table read from freed storage can name: one that is in no table
GarbageNames == {"Bogus"}

\* an empty std::function
EmptyCallback == "empty"
\* <<inputSignature, outputSignature, methodCallback>>
MethodArgs == {<<"ii", "i", "sum">>, <<"s", "", "log">>, <<"ii", "i", EmptyCallback>>}
SignalArgs == {"i", "s"}
\* <<signature, getCallback, setCallback>>
PropertyArgs == {<<"i", "getVolume", "setVolume">>, <<"i", "getVolume", EmptyCallback>>,
                 <<"s", EmptyCallback, "setName">>, <<"s", EmptyCallback, EmptyCallback>>}
\* <<signature, getCallback>> of the four-argument overload
GetterArgs == {<<"i", "getVolume">>, <<"s", EmptyCallback>>}

\* what a user callback does when it is invoked: returns, throws an
\* sdbus::Error (name, message), or throws something that is no sdbus::Error
TypedErrors == {<<"com.example.Error.Bad", "bad input">>}
Behaviours == {<<"return">>, <<"other">>} \cup {<<"typed", e[1], e[2]>> : e \in TypedErrors}
\* the values of the cell the callbacks getVolume and setVolume share: the
\* value it holds at first, and the values a set event carries
Values == <<7, 9>>

(* ----------------------------- errors ---------------------------------- *)
NoError == [errNo |-> "", message |-> ""]
\* SDBUS_THROW_ERROR_IF(cond, msg, errno)
Error(msg, errNo) == [errNo |-> errNo, message |-> msg]

(* --------------------------- registry data ----------------------------- *)
MethodData(inputArgs, outputArgs, callback) ==
    [inputArgs_ |-> inputArgs, outputArgs_ |-> outputArgs, callback_ |-> callback]
SignalData(signature) == [signature_ |-> signature]
PropertyData(signature, getCallback, setCallback) ==
    [signature_ |-> signature, getCallback_ |-> getCallback, setCallback_ |-> setCallback]

NullSlot == 0
EmptyMap == [x \in {} |-> 0]
\* a default-constructed InterfaceData, as interfaces_[name] creates it
InterfaceData ==
    [methods_ |-> EmptyMap, signals_ |-> EmptyMap, properties_ |-> EmptyMap,
     vtable_ |-> <<>>, slot_ |-> NullSlot]

\* std::map insertion of a key that is absent
MapPut(m, k, v) == [x \in (DOMAIN m) \cup {k} |-> IF x = k THEN v ELSE m[x]]
\* std::map::operator[]: inserts a default value when the key is absent
MapIndex(m, k, dflt) == IF k \in DOMAIN m THEN m ELSE MapPut(m, k, dflt)

VARIABLES
    interfaces,   \* Object::interfaces_: interface name -> InterfaceData
    ifaceOrder,   \* iteration order of interfaces_
    installed,    \* transport: slot -> vtable installed at (objectPath_, interface)
    removeCalls,  \* transport: slot -> number of removeObjectVTable(slot) calls
    nextSlot,     \* transport: next slot handle to hand out
    status,       \* "alive", "aborted" (failed assert / terminate), "destroyed"
    build,        \* "debug" (assert() aborts), "release" (NDEBUG: assert() is compiled
                  \* out), or "either" while no assert() has been reached that fails
    last,         \* the last operation (API call or transport event) and what it did
    finishCalls,  \* number of finishRegistration() calls made
    nCalls,       \* number of API calls made
    store,        \* the owner's cell that setVolume stores into and getVolume reads
    written,      \* <<interface, property>> -> the value of the last set event for
                  \* it that the entry point finished without reporting an error
    inflight      \* the entry point calls that hold the reference to their callback
                  \* (are past their lookup) and have not called it yet

vars == <<interfaces, ifaceOrder, installed, removeCalls, nextSlot, status, build,
          last, finishCalls, nCalls, store, written, inflight>>

\* what an operation did: the arguments and the error of an API call, the
\* callbacks an entry point invoked and what the callback did, the error the
\* entry point set, the replies it sent, and how the operation ended:
\* "returned", "threw" (an API call), "escaped" (an exception left an entry
\* point) or "assert"; reply is <<the value the getter wrote to the reply>>
Done(op, interfaceName, memberName, args, error, invoked, thrown, retError, replySent, end) ==
    [op |-> op, interface |-> interfaceName, member |-> memberName, args |-> args,
     error |-> error, invoked |-> invoked, thrown |-> thrown, retError |-> retError,
     replySent |-> replySent, end |-> end, reply |-> <<>>]
Called(op, interfaceName, memberName, args, error) ==
    Done(op, interfaceName, memberName, args, error, <<>>, <<>>, <<>>, 0,
         IF error = NoError THEN "returned" ELSE "threw")
Nothing == Called("none", "", "", <<>>, NoError)

\* Object::Object: empty registry, nothing installed
Init ==
    /\ interfaces = EmptyMap
    /\ ifaceOrder = <<>>
    /\ installed = EmptyMap
    /\ removeCalls = EmptyMap
    /\ nextSlot = 1
    /\ status = "alive"
    /\ build = "either"
    /\ last = Nothing
    /\ finishCalls = 0
    /\ nCalls = 0
    /\ store = Values[1]
    /\ written = EmptyMap
    /\ inflight = <<>>

\* interfaces_[interfaceName] of the registration functions
IndexInterface(ifs, interfaceName) == MapIndex(ifs, interfaceName, InterfaceData)
IndexOrder(ord, ifs, interfaceName) ==
    IF interfaceName \in DOMAIN ifs THEN ord ELSE Append(ord, interfaceName)

\* registerMethod storing through operator[]: a second registration replaces the first
registerMethod_Overwrites(ifs, interfaceName, methodName, inputSignature, outputSignature, methodCallback) ==
    IF methodCallback = EmptyCallback
    THEN [ifs |-> ifs, error |-> Error("Invalid method callback provided", "EINVAL")]
    ELSE LET ifs1 == IndexInterface(ifs, interfaceName)
             methodData == MethodData(inputSignature, outputSignature, methodCallback)
         IN [ifs |-> [ifs1 EXCEPT ![interfaceName].methods_ =
                          MapPut(ifs1[interfaceName].methods_, methodName, methodData)],
             error |-> IF methodName \in DOMAIN ifs1[interfaceName].methods_
                       THEN Error("Failed to register method: method already exists",
                                  "EINVAL")
                       ELSE NoError]

\* registerMethod without the test of its callback
registerMethod_AcceptsEmpty(ifs, interfaceName, methodName, inputSignature, outputSignature, methodCallback) ==
    LET ifs1 == IndexInterface(ifs, interfaceName)
        interface == ifs1[interfaceName]
        methodData == MethodData(inputSignature, outputSignature, methodCallback)
        inserted == methodName \notin DOMAIN interface.methods_
    IN IF inserted
       THEN [ifs |-> [ifs1 EXCEPT ![interfaceName].methods_ =
                           MapPut(interface.methods_, methodName, methodData)],
             error |-> NoError]
       ELSE [ifs |-> ifs1,
             error |-> Error("Failed to register method: method already exists", "EINVAL")]

\* the registry after the call, and the error thrown (NoError when none)
registerMethod(ifs, interfaceName, methodName, inputSignature, outputSignature, methodCallback) ==
    IF methodCallback = EmptyCallback
    THEN [ifs |-> ifs, error |-> Error("Invalid method callback provided", "EINVAL")]
    ELSE LET ifs1 == IndexInterface(ifs, interfaceName)
             interface == ifs1[interfaceName]
             methodData == MethodData(inputSignature, outputSignature, methodCallback)
             inserted == methodName \notin DOMAIN interface.methods_
         IN IF inserted
            THEN [ifs |-> [ifs1 EXCEPT ![interfaceName].methods_ =
                                MapPut(interface.methods_, methodName, methodData)],
                  error |-> NoError]
            ELSE [ifs |-> ifs1,
                  error |-> Error("Failed to register method: method already exists", "EINVAL")]

\* registerSignal starting the interface's entry afresh
registerSignal_ResetsInterface(ifs, interfaceName, signalName, signature) ==
    LET ifs1 == [i \in (DOMAIN ifs) \cup {interfaceName} |->
                    IF i = interfaceName THEN InterfaceData ELSE ifs[i]]
    IN [ifs |-> [ifs1 EXCEPT ![interfaceName].signals_ =
                     MapPut(EmptyMap, signalName, SignalData(signature))],
        error |-> NoError]

registerSignal(ifs, interfaceName, signalName, signature) ==
    LET ifs1 == IndexInterface(ifs, interfaceName)
        interface == ifs1[interfaceName]
        signalData == SignalData(signature)
        inserted == signalName \notin DOMAIN interface.signals_
    IN IF inserted
       THEN [ifs |-> [ifs1 EXCEPT ![interfaceName].signals_ =
                           MapPut(interface.signals_, signalName, signalData)],
             error |-> NoError]
       ELSE [ifs |-> ifs1,
             error |-> Error("Failed to register signal: signal already exists", "EINVAL")]

\* registerProperty checking its callbacks after it has indexed interfaces_
registerProperty_IndexesFirst(ifs, interfaceName, propertyName, signature, getCallback, setCallback) ==
    LET ifs1 == IndexInterface(ifs, interfaceName)
        interface == ifs1[interfaceName]
        propertyData == PropertyData(signature, getCallback, setCallback)
        inserted == propertyName \notin DOMAIN interface.properties_
    IN IF getCallback = EmptyCallback /\ setCallback = EmptyCallback
       THEN [ifs |-> ifs1, error |-> Error("Invalid property callbacks provided", "EINVAL")]
       ELSE IF inserted
       THEN [ifs |-> [ifs1 EXCEPT ![interfaceName].properties_ =
                           MapPut(interface.properties_, propertyName, propertyData)],
             error |-> NoError]
       ELSE [ifs |-> ifs1,
             error |-> Error("Failed to register property: property already exists", "EINVAL")]

registerProperty(ifs, interfaceName, propertyName, signature, getCallback, setCallback) ==
    IF getCallback = EmptyCallback /\ setCallback = EmptyCallback
    THEN [ifs |-> ifs, error |-> Error("Invalid property callbacks provided", "EINVAL")]
    ELSE LET ifs1 == IndexInterface(ifs, interfaceName)
             interface == ifs1[interfaceName]
             propertyData == PropertyData(signature, getCallback, setCallback)
             inserted == propertyName \notin DOMAIN interface.properties_
         IN IF inserted
            THEN [ifs |-> [ifs1 EXCEPT ![interfaceName].properties_ =
                                MapPut(interface.properties_, propertyName, propertyData)],
                  error |-> NoError]
            ELSE [ifs |-> ifs1,
                  error |-> Error("Failed to register property: property already exists", "EINVAL")]

\* the overload without a setter
registerPropertyGetterOnly(ifs, interfaceName, propertyName, signature, getCallback) ==
    registerProperty(ifs, interfaceName, propertyName, signature, getCallback, EmptyCallback)

\* the owner makes its calls while the Object is alive
CanCall == status = "alive" /\ nCalls < MaxCalls

\* the frame of a registration call
Registered(op, interfaceName, memberName, args, r) ==
    /\ interfaces' = r.ifs
    /\ ifaceOrder' = IF interfaceName \in DOMAIN r.ifs
                     THEN IndexOrder(ifaceOrder, interfaces, interfaceName)
                     ELSE ifaceOrder
    /\ last' = Called(op, interfaceName, memberName, args, r.error)
    /\ nCalls' = nCalls + 1
    /\ UNCHANGED <<installed, removeCalls, nextSlot, status, build, finishCalls,
                   store, written, inflight>>

RegisterMethod ==
    /\ CanCall
    /\ \E i \in InterfaceNames, m \in MethodNames, a \in MethodArgs :
          \E r \in {registerMethod(interfaces, i, m, a[1], a[2], a[3])} :
             Registered("registerMethod", i, m, a, r)

RegisterSignal ==
    /\ CanCall
    /\ \E i \in InterfaceNames, m \in SignalNames, s \in SignalArgs :
          \E r \in {registerSignal(interfaces, i, m, s)} :
             Registered("registerSignal", i, m, <<s>>, r)

RegisterProperty ==
    /\ CanCall
    /\ \E i \in InterfaceNames, m \in PropertyNames, a \in PropertyArgs :
          \E r \in {registerProperty(interfaces, i, m, a[1], a[2], a[3])} :
             Registered("registerProperty", i, m, a, r)

RegisterPropertyGetterOnly ==
    /\ CanCall
    /\ \E i \in InterfaceNames, m \in PropertyNames, a \in GetterArgs :
          \E r \in {registerPropertyGetterOnly(interfaces, i, m, a[1], a[2])} :
             Registered("registerProperty", i, m, <<a[1], a[2], EmptyCallback>>, r)

(* ------------------------- vtable builder ------------------------------ *)
\* the sd_bus_vtable items of VTableUtils
VTableItem(kind, name, sig, result) ==
    [kind |-> kind, name |-> name, signature |-> sig, result |-> result]
createVTableStartItem == VTableItem("start", "", "", "")
createVTableEndItem == VTableItem("end", "", "", "")
createVTableMethodItem(methodName, inputSignature, outputSignature) ==
    VTableItem("method", methodName, inputSignature, outputSignature)
createVTableSignalItem(signalName, signature) == VTableItem("signal", signalName, signature, "")
createVTablePropertyItem(propertyName, signature) ==
    VTableItem("property", propertyName, signature, "")
createVTableWritablePropertyItem(propertyName, signature) ==
    VTableItem("writable_property", propertyName, signature, "")

\* the keys of a member map in the map's iteration order
MapOrder(m) == SelectSeq(MemberNames, LAMBDA k : k \in DOMAIN m)

registerMethodsToVTable(interfaceData, vtable) ==
    LET keys == MapOrder(interfaceData.methods_)
    IN vtable \o [k \in 1..Len(keys) |->
                     LET methodName == keys[k]
                         methodData == interfaceData.methods_[keys[k]]
                     IN createVTableMethodItem(methodName, methodData.inputArgs_,
                                               methodData.outputArgs_)]

registerSignalsToVTable(interfaceData, vtable) ==
    LET keys == MapOrder(interfaceData.signals_)
    IN vtable \o [k \in 1..Len(keys) |->
                     LET signalName == keys[k]
                         signalData == interfaceData.signals_[keys[k]]
                     IN createVTableSignalItem(signalName, signalData.signature_)]

\* the builder choosing the shape of a property item by its getter
registerPropertiesToVTable_ByGetter(interfaceData, vtable) ==
    LET keys == MapOrder(interfaceData.properties_)
    IN vtable \o [k \in 1..Len(keys) |->
                     LET propertyName == keys[k]
                         propertyData == interfaceData.properties_[keys[k]]
                     IN IF propertyData.getCallback_ = EmptyCallback
                        THEN createVTablePropertyItem(propertyName, propertyData.signature_)
                        ELSE createVTableWritablePropertyItem(propertyName,
                                                              propertyData.signature_)]

registerPropertiesToVTable(interfaceData, vtable) ==
    LET keys == MapOrder(interfaceData.properties_)
    IN vtable \o [k \in 1..Len(keys) |->
                     LET propertyName == keys[k]
                         propertyData == interfaceData.properties_[keys[k]]
                     IN IF propertyData.setCallback_ = EmptyCallback
                        THEN createVTablePropertyItem(propertyName, propertyData.signature_)
                        ELSE createVTableWritablePropertyItem(propertyName,
                                                              propertyData.signature_)]

\* the builder without the push_back of the end item
createInterfaceVTable_NoEndItem(interfaceData) ==
    LET v1 == Append(interfaceData.vtable_, createVTableStartItem)
        v2 == registerMethodsToVTable(interfaceData, v1)
        v3 == registerSignalsToVTable(interfaceData, v2)
    IN registerPropertiesToVTable(interfaceData, v3)

\* the vtable_ of the interface after the call (the assert is FinishFrom's)
createInterfaceVTable(interfaceData) ==
    LET v1 == Append(interfaceData.vtable_, createVTableStartItem)
        v2 == registerMethodsToVTable(interfaceData, v1)
        v3 == registerSignalsToVTable(interfaceData, v2)
        v4 == registerPropertiesToVTable(interfaceData, v3)
    IN Append(v4, createVTableEndItem)

(* ---------------------------- transport -------------------------------- *)
RECURSIVE FirstEnd(_, _)
FirstEnd(vtable, k) ==
    IF k > Len(vtable) THEN Len(vtable)
    ELSE IF vtable[k].kind = "end" THEN k ELSE FirstEnd(vtable, k + 1)
\* what sd-bus reads from &vtable[0]: the items up to the first end item
VisibleTable(vtable) == SubSeq(vtable, 1, FirstEnd(vtable, 1))

AddObjectVTableError == Error("Failed to register object vtable", "EIO")

\* IConnection::addObjectVTable, when it succeeds
addObjectVTable(tr, interfaceName, vtable) ==
    [installed |-> MapPut(tr.installed, tr.nextSlot,
                          [interface |-> interfaceName, table |-> VisibleTable(vtable),
                           dangling |-> FALSE]),
     removeCalls |-> MapPut(tr.removeCalls, tr.nextSlot, 0),
     nextSlot |-> tr.nextSlot + 1]

\* IConnection::removeObjectVTable
removeObjectVTable(tr, slot) ==
    [installed |-> [s \in (DOMAIN tr.installed) \ {slot} |-> tr.installed[s]],
     removeCalls |-> [tr.removeCalls EXCEPT ![slot] = @ + 1],
     nextSlot |-> tr.nextSlot]

\* the storage of a vector that grew is freed: a table installed from it dangles
Reallocated(tr, slot) ==
    IF slot \in DOMAIN tr.installed
    THEN [tr EXCEPT !.installed[slot].dangling = TRUE]
    ELSE tr

\* activation that installs the table and does not keep the slot it is handed
activateInterfaceVTable_ForgetsSlot(st, interfaceName, install) ==
    IF ~install
    THEN [st EXCEPT !.outcome = "threw"]
    ELSE [st EXCEPT !.tr = addObjectVTable(st.tr, interfaceName,
                                           st.ifs[interfaceName].vtable_)]

\* activation that gives up the slot held before without running its deleter
activateInterfaceVTable_DropsOldSlot(st, interfaceName, install) ==
    IF ~install
    THEN [st EXCEPT !.outcome = "threw"]
    ELSE LET slot == st.tr.nextSlot
             tr1 == addObjectVTable(st.tr, interfaceName, st.ifs[interfaceName].vtable_)
         IN [st EXCEPT !.ifs[interfaceName].slot_ = slot, !.tr = tr1]

\* st = [ifs, tr, outcome, failed]; outcome is "ok", "threw" or "assert", failed
\* says whether an assert() was reached whose condition is false
activateInterfaceVTable(st, interfaceName, install) ==
    IF ~install
    THEN [st EXCEPT !.outcome = "threw"]
    ELSE LET slot == st.tr.nextSlot
             old == st.ifs[interfaceName].slot_
             tr1 == addObjectVTable(st.tr, interfaceName, st.ifs[interfaceName].vtable_)
             \* slot_.reset(slot) runs the deleter on the slot held before
             tr2 == IF old = NullSlot THEN tr1 ELSE removeObjectVTable(tr1, old)
         IN [st EXCEPT !.ifs[interfaceName].slot_ = slot, !.tr = tr2]

RECURSIVE FinishFrom(_, _, _, _, _, _)
\* the loop of finishRegistration from the k-th interface on; the failAt-th
\* addObjectVTable throws, realloc says whether a growing vtable_ moves
FinishFrom(st, order, k, nd, failAt, realloc) ==
    IF k > Len(order) THEN st
    ELSE LET interfaceName == order[k]
             interfaceData == st.ifs[interfaceName]
             built == interfaceData.vtable_ # <<>>
         IN IF built /\ ~nd
            THEN [st EXCEPT !.outcome = "assert", !.failed = TRUE]
            ELSE LET vtable == createInterfaceVTable(interfaceData)
                     tr1 == IF built /\ realloc
                            THEN Reallocated(st.tr, interfaceData.slot_)
                            ELSE st.tr
                     st1 == [st EXCEPT !.ifs[interfaceName].vtable_ = vtable, !.tr = tr1,
                                       !.failed = @ \/ built]
                     st2 == activateInterfaceVTable(st1, interfaceName, failAt # k)
                 IN CHOOSE end \in {IF s.outcome = "threw" THEN s
                                     ELSE FinishFrom(s, order, k + 1, nd, failAt, realloc) :
                                     s \in {st2}} : TRUE

\* finishRegistration going through the interfaces in the order of their names
finishRegistration_ByName(ifs, order, tr, nd, failAt, realloc) ==
    FinishFrom([ifs |-> ifs, tr |-> tr, outcome |-> "ok", failed |-> FALSE],
               SelectSeq(<<"com.example.Calc", "com.example.Mixer">>,
                         LAMBDA i : i \in DOMAIN ifs),
               1, nd, failAt, realloc)

finishRegistration(ifs, order, tr, nd, failAt, realloc) ==
    FinishFrom([ifs |-> ifs, tr |-> tr, outcome |-> "ok", failed |-> FALSE],
               order, 1, nd, failAt, realloc)

\* the values of NDEBUG to tell apart when the operation does or does not reach
\* an assert() whose condition is false, and the build once it has, under
\* NDEBUG = nd
Builds(reached) == IF reached /\ build = "either" THEN BOOLEAN ELSE {build # "debug"}
Built(failed, nd) == IF ~failed THEN build ELSE IF nd THEN "release" ELSE "debug"

Transport == [installed |-> installed, removeCalls |-> removeCalls, nextSlot |-> nextSlot]

FinishRegistration ==
    /\ CanCall
    /\ \E failAt \in 0..Len(ifaceOrder), realloc \in BOOLEAN,
          nd \in Builds(\E i \in DOMAIN interfaces : interfaces[i].vtable_ # <<>>) :
          \E r \in {finishRegistration(interfaces, ifaceOrder, Transport, nd, failAt, realloc)} :
             /\ interfaces' = r.ifs
             /\ build' = Built(r.failed, nd)
             /\ installed' = r.tr.installed
             /\ removeCalls' = r.tr.removeCalls
             /\ nextSlot' = r.tr.nextSlot
             /\ status' = IF r.outcome = "assert" THEN "aborted" ELSE status
             /\ last' = [Called("finishRegistration", "", "", <<>>,
                                 IF r.outcome = "threw" THEN AddObjectVTableError
                                 ELSE NoError)
                          EXCEPT !.end = IF r.outcome = "ok" THEN "returned" ELSE r.outcome]
    /\ finishCalls' = finishCalls + 1
    /\ nCalls' = nCalls + 1
    /\ UNCHANGED <<ifaceOrder, store, written, inflight>>

RECURSIVE ReleaseAll(_, _, _)
\* the slot_ of every InterfaceData is destroyed: its deleter runs when it holds a slot
ReleaseAll(tr, ifs, names) ==
    IF names = {} THEN tr
    ELSE LET n == CHOOSE x \in names : TRUE
             slot == ifs[n].slot_
         IN ReleaseAll(IF slot = NullSlot THEN tr ELSE removeObjectVTable(tr, slot),
                       ifs, names \ {n})

\* the Object is destroyed by its owner
DestroyObject ==
    /\ status = "alive"
    /\ LET tr == ReleaseAll(Transport, interfaces, DOMAIN interfaces)
       IN /\ installed' = tr.installed
          /\ removeCalls' = tr.removeCalls
          /\ nextSlot' = tr.nextSlot
    /\ interfaces' = EmptyMap
    /\ ifaceOrder' = <<>>
    /\ status' = "destroyed"
    /\ last' = Called("destroy", "", "", <<>>, NoError)
    /\ UNCHANGED <<build, finishCalls, nCalls, store, written, inflight>>

(* ------------------------ dispatch entry points ------------------------ *)
\* sd_bus_error_set(retError, name, message)
sd_bus_error_set(name, message) == <<name, message>>
NoRetError == <<>>

\* object->interfaces_[interface] of the entry points, with the order it is iterated in
LookupInterface(ifs, interfaceName) == MapIndex(ifs, interfaceName, InterfaceData)

\* object->interfaces_[interface].methods_[member]
LookupMethod(ifs, interfaceName, memberName) ==
    LET ifs1 == LookupInterface(ifs, interfaceName)
    IN [ifs1 EXCEPT ![interfaceName].methods_ =
            MapIndex(@, memberName, MethodData("", "", EmptyCallback))]

\* a lookup by member name alone: the callback of some interface's method of that name
MethodCallbackOfAnyInterface(ifs, interfaceName, memberName) ==
    LET having == {i \in DOMAIN ifs : /\ i # interfaceName
                                      /\ memberName \in DOMAIN ifs[i].methods_}
    IN IF having = {} THEN ifs[interfaceName].methods_[memberName].callback_
       ELSE ifs[CHOOSE i \in having : TRUE].methods_[memberName].callback_

\* the callback_ the method entry point takes from the entry it looked up
MethodCallback(ifs, interfaceName, memberName) ==
    ifs[interfaceName].methods_[memberName].callback_

\* object->interfaces_[interface].properties_[property]
LookupProperty(ifs, interfaceName, propertyName) ==
    LET ifs1 == LookupInterface(ifs, interfaceName)
    IN [ifs1 EXCEPT ![interfaceName].properties_ =
            MapIndex(@, propertyName, PropertyData("", EmptyCallback, EmptyCallback))]

\* what an entry point did: the registry after it, the callbacks it invoked
\* and what the invoked callback did, the error it set, the replies it sent,
\* and how it ended: "returned" (1 to sd-bus), "escaped" or "assert"
Outcome(ifs, invoked, thrown, retError, replySent, end) ==
    [ifs |-> ifs, invoked |-> invoked, thrown |-> thrown, retError |-> retError,
     replySent |-> replySent, end |-> end,
     failed |-> end = "assert" \/ thrown = <<"bad_function_call">>]

\* callback(...): what leaves the call; an empty std::function throws
\* std::bad_function_call
Call(callback, behaviour) ==
    IF callback = EmptyCallback THEN <<"bad_function_call">> ELSE behaviour
Invoked(callback) == IF callback = EmptyCallback THEN <<>> ELSE <<callback>>

\* Message::createReply and Message::send: the replies sent after a send
send(replySent) == replySent + 1

\* the method entry point without its reply.send()
sdbus_method_callback_NeverSends(ifs, nd, interfaceName, memberName, behaviour) ==
    LET ifs1 == LookupMethod(ifs, interfaceName, memberName)
        callback == MethodCallback(ifs1, interfaceName, memberName)
        thrown == Call(callback, behaviour)
    IN IF callback = EmptyCallback /\ ~nd
       THEN Outcome(ifs1, <<>>, <<>>, NoRetError, 0, "assert")
       ELSE IF thrown[1] = "typed"
       THEN Outcome(ifs1, Invoked(callback), thrown,
                    sd_bus_error_set(thrown[2], thrown[3]), 0, "returned")
       ELSE IF thrown[1] # "return"
       THEN Outcome(ifs1, Invoked(callback), thrown, NoRetError, 0, "escaped")
       ELSE Outcome(ifs1, Invoked(callback), thrown, NoRetError, 0, "returned")

\* the method entry point without the return in its catch block: it goes on to send
sdbus_method_callback_SendsAfterError(ifs, nd, interfaceName, memberName, behaviour) ==
    LET ifs1 == LookupMethod(ifs, interfaceName, memberName)
        callback == MethodCallback(ifs1, interfaceName, memberName)
        thrown == Call(callback, behaviour)
    IN IF callback = EmptyCallback /\ ~nd
       THEN Outcome(ifs1, <<>>, <<>>, NoRetError, 0, "assert")
       ELSE IF thrown[1] = "typed"
       THEN Outcome(ifs1, Invoked(callback), thrown,
                    sd_bus_error_set(thrown[2], thrown[3]), send(0), "returned")
       ELSE IF thrown[1] # "return"
       THEN Outcome(ifs1, Invoked(callback), thrown, NoRetError, 0, "escaped")
       ELSE Outcome(ifs1, Invoked(callback), thrown, NoRetError, send(0), "returned")

sdbus_method_callback(ifs, nd, interfaceName, memberName, behaviour) ==
    LET ifs1 == LookupMethod(ifs, interfaceName, memberName)
        callback == MethodCallback(ifs1, interfaceName, memberName)
        thrown == Call(callback, behaviour)
    IN IF callback = EmptyCallback /\ ~nd
       THEN Outcome(ifs1, <<>>, <<>>, NoRetError, 0, "assert")
       ELSE IF thrown[1] = "typed"
       THEN Outcome(ifs1, Invoked(callback), thrown,
                    sd_bus_error_set(thrown[2], thrown[3]), 0, "returned")
       ELSE IF thrown[1] # "return"
       THEN Outcome(ifs1, Invoked(callback), thrown, NoRetError, 0, "escaped")
       ELSE Outcome(ifs1, Invoked(callback), thrown, NoRetError, send(0), "returned")

\* the get entry point without the test for an empty getter
sdbus_property_get_callback_NoEmptyTest(ifs, nd, interfaceName, propertyName, behaviour) ==
    LET ifs1 == LookupProperty(ifs, interfaceName, propertyName)
        callback == ifs1[interfaceName].properties_[propertyName].getCallback_
        thrown == Call(callback, behaviour)
    IN IF thrown[1] = "typed"
       THEN Outcome(ifs1, Invoked(callback), thrown,
                    sd_bus_error_set(thrown[2], thrown[3]), 0, "returned")
       ELSE IF thrown[1] # "return"
       THEN Outcome(ifs1, Invoked(callback), thrown, NoRetError, 0, "escaped")
       ELSE Outcome(ifs1, Invoked(callback), thrown, NoRetError, 0, "returned")

sdbus_property_get_callback(ifs, nd, interfaceName, propertyName, behaviour) ==
    LET ifs1 == LookupProperty(ifs, interfaceName, propertyName)
        callback == ifs1[interfaceName].properties_[propertyName].getCallback_
    IN IF callback = EmptyCallback
       THEN Outcome(ifs1, <<>>, <<>>,
                    sd_bus_error_set("org.freedesktop.DBus.Error.Failed",
                                     "Cannot read property as it is write-only"),
                    0, "returned")
       ELSE IF behaviour[1] = "typed"
       THEN Outcome(ifs1, <<callback>>, behaviour,
                    sd_bus_error_set(behaviour[2], behaviour[3]), 0, "returned")
       ELSE IF behaviour[1] # "return"
       THEN Outcome(ifs1, <<callback>>, behaviour, NoRetError, 0, "escaped")
       ELSE Outcome(ifs1, <<callback>>, behaviour, NoRetError, 0, "returned")

\* the set entry point taking the getter of the entry it looked up
sdbus_property_set_callback_CallsGetter(ifs, nd, interfaceName, propertyName, behaviour) ==
    LET ifs1 == LookupProperty(ifs, interfaceName, propertyName)
        callback == ifs1[interfaceName].properties_[propertyName].getCallback_
        thrown == Call(callback, behaviour)
    IN IF callback = EmptyCallback /\ ~nd
       THEN Outcome(ifs1, <<>>, <<>>, NoRetError, 0, "assert")
       ELSE IF thrown[1] = "typed"
       THEN Outcome(ifs1, Invoked(callback), thrown,
                    sd_bus_error_set(thrown[2], thrown[3]), 0, "returned")
       ELSE IF thrown[1] # "return"
       THEN Outcome(ifs1, Invoked(callback), thrown, NoRetError, 0, "escaped")
       ELSE Outcome(ifs1, Invoked(callback), thrown, NoRetError, 0, "returned")

sdbus_property_set_callback(ifs, nd, interfaceName, propertyName, behaviour) ==
    LET ifs1 == LookupProperty(ifs, interfaceName, propertyName)
        callback == ifs1[interfaceName].properties_[propertyName].setCallback_
        thrown == Call(callback, behaviour)
    IN IF callback = EmptyCallback /\ ~nd
       THEN Outcome(ifs1, <<>>, <<>>, NoRetError, 0, "assert")
       ELSE IF thrown[1] = "typed"
       THEN Outcome(ifs1, Invoked(callback), thrown,
                    sd_bus_error_set(thrown[2], thrown[3]), 0, "returned")
       ELSE IF thrown[1] # "return"
       THEN Outcome(ifs1, Invoked(callback), thrown, NoRetError, 0, "escaped")
       ELSE Outcome(ifs1, Invoked(callback), thrown, NoRetError, 0, "returned")

\* the events sd-bus delivers for an installed table: a call for a method
\* item, a get for either property item, a set for a writable property item;
\* a dangling table is read as it was or yields an event for a member of no table
Delivers(slot, kind, memberName) ==
    /\ slot \in DOMAIN installed
    /\ \/ installed[slot].dangling /\ memberName \in GarbageNames
       \/ \E k \in 1..Len(installed[slot].table) :
             LET item == installed[slot].table[k]
             IN /\ item.name = memberName
                /\ \/ kind = "method" /\ item.kind = "method"
                   \/ kind = "get" /\ item.kind \in {"property", "writable_property"}
                   \/ kind = "set" /\ item.kind = "writable_property"

\* an exception that unwinds into the C frames of sd-bus may or may not end the process
Survivals(r) == IF r.end = "escaped" THEN BOOLEAN ELSE {TRUE}

\* sd-bus delivers events while the process runs
CanDispatch == status = "alive"

\* the owner's callbacks: setVolume stores the value it is given, getVolume
\* writes the stored value to the reply; a callback that throws does neither
Stored(r, value, cell) ==
    IF r.invoked = <<"setVolume">> /\ r.thrown = <<"return">> THEN value ELSE cell
Replied(r, cell) ==
    IF r.invoked = <<"getVolume">> /\ r.thrown = <<"return">> THEN <<cell>> ELSE <<>>

\* the frame of an entry point; an exception that unwinds into sd-bus or a
\* failed assert ends the process, or (the exception) is survived
Dispatched(op, interfaceName, memberName, value, r, nd, survive) ==
    /\ interfaces' = r.ifs
    /\ build' = Built(r.failed, nd)
    /\ ifaceOrder' = IndexOrder(ifaceOrder, interfaces, interfaceName)
    /\ store' = Stored(r, value, store)
    /\ written' = IF /\ op = "sdbus_property_set_callback"
                     /\ r.end = "returned" /\ r.retError = NoRetError
                  THEN [x \in (DOMAIN written) \cup {<<interfaceName, memberName>>} |->
                           IF x = <<interfaceName, memberName>> THEN value ELSE written[x]]
                  ELSE written
    /\ last' = [Done(op, interfaceName, memberName, <<>>, NoError, r.invoked,
                     r.thrown, r.retError, r.replySent, r.end)
                EXCEPT !.reply = Replied(r, store)]
    /\ status' = IF r.end = "assert" \/ (r.end = "escaped" /\ ~survive)
                 THEN "aborted" ELSE status
    /\ UNCHANGED <<installed, removeCalls, nextSlot, finishCalls, nCalls>>

\* the entry point sd-bus calls for an item of the table
EntryPoint(op, ifs, nd, interfaceName, memberName, behaviour) ==
    CASE op = "sdbus_method_callback" ->
            sdbus_method_callback(ifs, nd, interfaceName, memberName, behaviour)
      [] op = "sdbus_property_get_callback" ->
            sdbus_property_get_callback(ifs, nd, interfaceName, memberName, behaviour)
      [] op = "sdbus_property_set_callback" ->
            sdbus_property_set_callback(ifs, nd, interfaceName, memberName, behaviour)

\* sd-bus delivers an event of the kind to the entry point
Dispatch(op, kind) ==
    /\ CanDispatch
    /\ \E slot \in DOMAIN installed, m \in MemberSet :
          /\ Delivers(slot, kind, m)
          /\ \E probe \in {EntryPoint(op, interfaces, TRUE, installed[slot].interface, m,
                                        <<"return">>)} :
                \E b \in (IF probe.invoked = <<>> THEN {<<"return">>} ELSE Behaviours),
                   nd \in Builds(probe.failed) :
                   \E r \in {EntryPoint(op, interfaces, nd, installed[slot].interface, m, b)} :
                      \E survive \in Survivals(r),
                         value \in (IF op = "sdbus_property_set_callback"
                                    THEN {Values[k] : k \in 1..Len(Values)}
                                    ELSE {Values[1]}) :
                         /\ Dispatched(op, installed[slot].interface, m, value, r, nd, survive)
                         /\ UNCHANGED inflight

DispatchMethodCall == Dispatch("sdbus_method_callback", "method")

DispatchPropertyGet ==
    Dispatch("sdbus_property_get_callback", "get")

DispatchPropertySet ==
    Dispatch("sdbus_property_set_callback", "set")

(* ------------- entry points running beside the owner's thread --------- *)
\* the lookup of the entry point of the kind
Lookup(op, ifs, interfaceName, memberName) ==
    IF op = "sdbus_method_callback"
    THEN LookupMethod(ifs, interfaceName, memberName)
    ELSE LookupProperty(ifs, interfaceName, memberName)

\* sd-bus calls an entry point, which runs up to the reference to its
\* callback: auto& callback = object->interfaces_[...]...
Begin(op, kind) ==
    /\ CanDispatch
    /\ Len(inflight) < MaxInFlight
    /\ \E slot \in DOMAIN installed, m \in MemberSet :
          /\ Delivers(slot, kind, m)
          /\ interfaces' = Lookup(op, interfaces, installed[slot].interface, m)
          /\ ifaceOrder' = IndexOrder(ifaceOrder, interfaces, installed[slot].interface)
          /\ inflight' = Append(inflight, [op |-> op, interface |-> installed[slot].interface,
                                           member |-> m])
    /\ UNCHANGED <<installed, removeCalls, nextSlot, status, build, last, finishCalls,
                   nCalls, store, written>>

BeginMethodCall == Begin("sdbus_method_callback", "method")
BeginPropertyGet == Begin("sdbus_property_get_callback", "get")
BeginPropertySet == Begin("sdbus_property_set_callback", "set")

\* the entry point goes on from its reference: while the Object lives this
\* is the rest of the entry point; once the Object is destroyed the reference
\* points into the freed interfaces_, and the process goes on or ends
Complete ==
    /\ inflight # <<>>
    /\ status \in {"alive", "destroyed"}
    /\ inflight' = Tail(inflight)
    /\ LET call == Head(inflight)
       IN IF status = "destroyed"
          THEN /\ last' = Done(call.op, call.interface, call.member, <<>>, NoError, <<>>,
                               <<>>, NoRetError, 0, "use_after_free")
               /\ status' \in {"destroyed", "aborted"}
               /\ UNCHANGED <<interfaces, ifaceOrder, build, store, written, installed,
                              removeCalls, nextSlot, finishCalls, nCalls>>
          ELSE \E probe \in {EntryPoint(call.op, interfaces, TRUE, call.interface,
                                        call.member, <<"return">>)} :
                  \E b \in (IF probe.invoked = <<>> THEN {<<"return">>} ELSE Behaviours),
                     nd \in Builds(probe.failed) :
                     \E r \in {EntryPoint(call.op, interfaces, nd, call.interface,
                                          call.member, b)} :
                        \E survive \in Survivals(r),
                           value \in (IF call.op = "sdbus_property_set_callback"
                                      THEN {Values[k] : k \in 1..Len(Values)}
                                      ELSE {Values[1]}) :
                           Dispatched(call.op, call.interface, call.member, value, r, nd,
                                      survive)

Next ==
    \/ RegisterMethod
    \/ RegisterSignal
    \/ RegisterProperty
    \/ RegisterPropertyGetterOnly
    \/ FinishRegistration
    \/ DestroyObject
    \/ DispatchMethodCall
    \/ DispatchPropertyGet
    \/ DispatchPropertySet

Spec == Init /\ [][Next]_vars

\* the Object with sd-bus calling the entry points from threads of its own:
\* the owner's calls, and its destruction of the Object, come between the
\* lookup of an entry point and its call of the callback
NextThreaded ==
    \/ RegisterMethod
    \/ RegisterSignal
    \/ RegisterProperty
    \/ RegisterPropertyGetterOnly
    \/ FinishRegistration
    \/ DestroyObject
    \/ BeginMethodCall
    \/ BeginPropertyGet
    \/ BeginPropertySet
    \/ Complete

SpecThreaded == Init /\ [][NextThreaded]_vars

(* ------------------------------- claims -------------------------------- *)
RegisterOps == {"registerMethod", "registerSignal", "registerProperty"}
EntryPoints == {"sdbus_method_callback", "sdbus_property_get_callback",
                "sdbus_property_set_callback"}
\* the step is an API call of the owner
IsCall == nCalls' = nCalls + 1

\* C1: after finishRegistration has been called, every registerMethod,
\* registerSignal and registerProperty call fails (with InvalidState; stated
\* here as: throws at all) and leaves the registry as it was.
C1_RegistrationAfterFinalizeFails ==
    [][(IsCall /\ finishCalls >= 1 /\ last'.op \in RegisterOps)
          => (last'.end = "threw" /\ interfaces' = interfaces)]_vars

\* C2: a method call dispatched for a registered method (interface, member)
\* invokes the callback registered for that pair, once, and nothing else.
C2_MethodCallInvokesItsCallback ==
    (/\ last.op = "sdbus_method_callback"
     /\ interfaces[last.interface].methods_[last.member].callback_ # EmptyCallback)
        => last.invoked = <<interfaces[last.interface].methods_[last.member].callback_>>

\* a call was dispatched to a method whose name is also that of another
\* interface's method with another callback
C2_Witness ==
    /\ last.op = "sdbus_method_callback"
    /\ Len(last.invoked) = 1
    /\ \E i \in DOMAIN interfaces :
          /\ i # last.interface
          /\ last.member \in DOMAIN interfaces[i].methods_
          /\ interfaces[i].methods_[last.member].callback_ \notin
                {EmptyCallback, last.invoked[1]}

\* C3: no entry point ever lets an exception propagate to the transport: each
\* returns normally whatever the callback does.
C3_NoExceptionEscapes ==
    (last.op \in EntryPoints /\ last.invoked # <<>>) => last.end = "returned"

\* C4: when the callback an entry point invoked raises a typed error (N, M), the
\* error reply is set to exactly (N, M) and a method call's reply is not sent.
C4_TypedErrorIsPassedThrough ==
    (last.op \in EntryPoints /\ last.thrown # <<>> /\ last.thrown[1] = "typed")
        => /\ last.retError = <<last.thrown[2], last.thrown[3]>>
           /\ last.replySent = 0
           /\ last.end = "returned"

\* a method callback raised a typed error
C4_Witness ==
    /\ last.op = "sdbus_method_callback"
    /\ last.invoked # <<>>
    /\ last.thrown = <<"typed", "com.example.Error.Bad", "bad input">>
    /\ last.retError = <<"com.example.Error.Bad", "bad input">>

\* the errors of the registration calls, by the kind the taxonomy gives them
InvalidArgument == {Error("Invalid method callback provided", "EINVAL"),
                    Error("Invalid property callbacks provided", "EINVAL")}
AlreadyExists == {Error("Failed to register method: method already exists", "EINVAL"),
                  Error("Failed to register signal: signal already exists", "EINVAL"),
                  Error("Failed to register property: property already exists", "EINVAL")}
\* the member map of the category the call registers in
MembersOf(interfaceData, op) ==
    IF op = "registerMethod" THEN interfaceData.methods_
    ELSE IF op = "registerSignal" THEN interfaceData.signals_
    ELSE interfaceData.properties_
\* the call passes the callbacks its category needs
HasCallbacks(call) ==
    IF call.op = "registerMethod" THEN call.args[3] # EmptyCallback
    ELSE IF call.op = "registerProperty"
    THEN call.args[2] # EmptyCallback \/ call.args[3] # EmptyCallback
    ELSE TRUE

C6_EmptyCallbacksFailAndChangeNothing ==
    [][(IsCall /\ last'.op \in {"registerMethod", "registerProperty"} /\ ~HasCallbacks(last'))
          => (/\ last'.error \in InvalidArgument
              /\ last'.error \notin AlreadyExists
              /\ interfaces' = interfaces)]_vars

\* registerProperty without callbacks failed for an interface the registry does not hold
C6_Witness ==
    /\ last.op = "registerProperty"
    /\ last.args[2] = EmptyCallback /\ last.args[3] = EmptyCallback
    /\ last.error \in InvalidArgument
    /\ last.interface \notin DOMAIN interfaces

\* C7: finishRegistration called again, or with an interface whose vtable_ is
\* already built, fails (with InvalidState; stated here as: throws) and leaves
\* every built table and every installed slot as it was.
C7_SecondFinalizeFails ==
    [][(/\ IsCall
        /\ last'.op = "finishRegistration"
        /\ (finishCalls >= 1 \/ \E i \in DOMAIN interfaces : interfaces[i].vtable_ # <<>>))
          => (last'.end = "threw" /\ interfaces' = interfaces /\ installed' = installed)]_vars

\* C8: a get dispatched for a property registered with a setter and no getter
\* sets the error org.freedesktop.DBus.Error.Failed with the write-only
\* message, invokes no callback and sends no reply.
C8_GetOfWriteOnlyProperty ==
    (/\ last.op = "sdbus_property_get_callback"
     /\ interfaces[last.interface].properties_[last.member].getCallback_ = EmptyCallback
     /\ interfaces[last.interface].properties_[last.member].setCallback_ # EmptyCallback)
        => /\ last.retError = <<"org.freedesktop.DBus.Error.Failed",
                                "Cannot read property as it is write-only">>
           /\ last.invoked = <<>>
           /\ last.replySent = 0
           /\ last.end = "returned"

\* a get was dispatched for a write-only property
C8_Witness ==
    /\ last.op = "sdbus_property_get_callback"
    /\ interfaces[last.interface].properties_[last.member].getCallback_ = EmptyCallback
    /\ interfaces[last.interface].properties_[last.member].setCallback_ = "setName"
    /\ last.retError # <<>>

\* the property items of a table of the interface have the shape of its properties
ShapesMatch(table, interfaceData) ==
    \A k \in 1..Len(table) :
        table[k].kind \in {"property", "writable_property"}
            => /\ table[k].name \in DOMAIN interfaceData.properties_
               /\ (table[k].kind = "writable_property"
                      <=> interfaceData.properties_[table[k].name].setCallback_
                              # EmptyCallback)

\* C9: in every built table, and in every table installed on the transport, a
\* property item is writable if and only if the property has a setter.
C9_WritableIffSetter ==
    /\ \A i \in DOMAIN interfaces : ShapesMatch(interfaces[i].vtable_, interfaces[i])
    /\ \A slot \in DOMAIN installed :
          /\ installed[slot].interface \in DOMAIN interfaces
          /\ ShapesMatch(installed[slot].table, interfaces[installed[slot].interface])

\* a table is installed that holds a read-only item for a property with a getter only
C9_Witness ==
    \E slot \in DOMAIN installed :
        \E k \in 1..Len(installed[slot].table) :
            /\ installed[slot].table[k].kind = "property"
            /\ interfaces[installed[slot].interface].properties_[
                   installed[slot].table[k].name].getCallback_ # EmptyCallback

\* C10: no slot is uninstalled twice, no uninstalled slot stays on the
\* transport, and once the Object is destroyed every slot it was handed has
\* been uninstalled exactly once and none of its tables is installed.
C10_EverySlotReleasedOnce ==
    /\ \A slot \in DOMAIN removeCalls :
          /\ removeCalls[slot] <= 1
          /\ slot \in DOMAIN installed <=> removeCalls[slot] = 0
    /\ status = "destroyed"
          => /\ DOMAIN installed = {}
             /\ \A slot \in DOMAIN removeCalls : removeCalls[slot] = 1

\* the Object was destroyed after one of its interfaces had its slot replaced
C10_Witness ==
    /\ status = "destroyed"
    /\ Cardinality(DOMAIN removeCalls) >= 2
    /\ DOMAIN installed = {}

\* the property is registered with getVolume and setVolume, and no other
\* property of the registry stores into their cell
OwnsCell(interfaceName, propertyName) ==
    /\ interfaceName \in DOMAIN interfaces
    /\ propertyName \in DOMAIN interfaces[interfaceName].properties_
    /\ interfaces[interfaceName].properties_[propertyName].getCallback_ = "getVolume"
    /\ interfaces[interfaceName].properties_[propertyName].setCallback_ = "setVolume"
    /\ \A i \in DOMAIN interfaces : \A p \in DOMAIN interfaces[i].properties_ :
          interfaces[i].properties_[p].setCallback_ = "setVolume"
              => <<i, p>> = <<interfaceName, propertyName>>
\* the value of the last set event for the property, or the cell's first value
LastWritten(interfaceName, propertyName) ==
    IF <<interfaceName, propertyName>> \in DOMAIN written
    THEN written[<<interfaceName, propertyName>>]
    ELSE Values[1]

\* C11: a get dispatched for a property whose setter stores the incoming value
\* and whose getter returns the stored value replies with the value of the
\* most recent set event for that property that was carried out, or with the
\* initial value when there was none.
C11_GetRepliesLastSet ==
    (/\ last.op = "sdbus_property_get_callback"
     /\ last.end = "returned" /\ last.retError = NoRetError
     /\ OwnsCell(last.interface, last.member))
        => last.reply = <<LastWritten(last.interface, last.member)>>

\* a get replied 9 after a set event carried 9 (the cell held 7 at first)
C11_Witness ==
    /\ last.op = "sdbus_property_get_callback"
    /\ OwnsCell(last.interface, last.member)
    /\ <<last.interface, last.member>> \in DOMAIN written
    /\ last.reply = <<Values[2]>>
    /\ Values[2] # Values[1]

\* the step is an entry point called by sd-bus
IsDispatch == nCalls' = nCalls /\ last'.op \in EntryPoints

\* C12: no dispatch, whatever interface and member its event names, adds,
\* removes or changes an entry of the registry.
C12_DispatchLeavesRegistry ==
    [][IsDispatch => interfaces' = interfaces]_vars

\* the item of an installed table that an event of the entry point for the
\* member of the interface is delivered for
ItemOf(op, interfaceName, memberName, item, slot) ==
    /\ installed[slot].interface = interfaceName
    /\ item.name = memberName
    /\ \/ op = "sdbus_method_callback" /\ item.kind = "method"
       \/ op = "sdbus_property_set_callback" /\ item.kind = "writable_property"
\* the callback the entry point finds for the item in the registry
BoundTo(item, interfaceName) ==
    IF interfaceName \notin DOMAIN interfaces THEN EmptyCallback
    ELSE IF item.kind = "method"
    THEN IF item.name \in DOMAIN interfaces[interfaceName].methods_
         THEN interfaces[interfaceName].methods_[item.name].callback_
         ELSE EmptyCallback
    ELSE IF item.name \in DOMAIN interfaces[interfaceName].properties_
         THEN interfaces[interfaceName].properties_[item.name].setCallback_
         ELSE EmptyCallback

\* C13: every method item of an installed table has a non-empty callback in
\* the registry and every writable property item a non-empty setter; a method
\* call or a set delivered for such an item calls that callback, and no call
\* of an entry point fails the assertion on its callback.
C13_InstalledMembersAreBound ==
    /\ \A slot \in DOMAIN installed : \A k \in 1..Len(installed[slot].table) :
          installed[slot].table[k].kind \in {"method", "writable_property"}
              => BoundTo(installed[slot].table[k], installed[slot].interface) # EmptyCallback
    /\ (\E slot \in DOMAIN installed : \E k \in 1..Len(installed[slot].table) :
            ItemOf(last.op, last.interface, last.member, installed[slot].table[k], slot))
          => /\ last.end # "assert"
             /\ last.thrown # <<"bad_function_call">>
             /\ Len(last.invoked) = 1
    /\ last.op \in EntryPoints => last.end # "assert"

\* a set was delivered for a writable property item and its setter was called
C13_Witness ==
    /\ last.op = "sdbus_property_set_callback"
    /\ last.invoked = <<"setName">>
    /\ \E slot \in DOMAIN installed : \E k \in 1..Len(installed[slot].table) :
          /\ ItemOf(last.op, last.interface, last.member, installed[slot].table[k], slot)
          /\ \E j \in 1..Len(installed[slot].table) : installed[slot].table[j].kind = "method"

\* C14: a method call whose callback returns sends the reply once and reports
\* no error; one whose callback throws an sdbus::Error reports the error and
\* sends no reply: one outcome, never both and never neither.
C14_ExactlyOneOutcome ==
    (/\ last.op = "sdbus_method_callback"
     /\ last.invoked # <<>>
     /\ last.thrown[1] \in {"return", "typed"})
        => /\ last.end = "returned"
           /\ last.thrown[1] = "return" => (last.replySent = 1 /\ last.retError = NoRetError)
           /\ last.thrown[1] = "typed" => (last.replySent = 0 /\ last.retError # NoRetError)

\* a method call whose callback returned had its reply sent
C14_Witness ==
    /\ last.op = "sdbus_method_callback"
    /\ last.invoked = <<"sum">>
    /\ last.thrown = <<"return">>
    /\ last.replySent = 1

\* the items of the table from position from + 1 on are one item of the kinds
\* for each name of the member map, and no name twice
Section(table, from, kinds, members) ==
    /\ from + Cardinality(DOMAIN members) <= Len(table)
    /\ \A k \in 1..Cardinality(DOMAIN members) :
          /\ table[from + k].kind \in kinds
          /\ table[from + k].name \in DOMAIN members
    /\ \A j, k \in 1..Cardinality(DOMAIN members) :
          table[from + j].name = table[from + k].name => j = k
\* start, the methods, the signals, the properties, end
HasLayout(table, interfaceData) ==
    LET m == Cardinality(DOMAIN interfaceData.methods_)
        g == Cardinality(DOMAIN interfaceData.signals_)
        p == Cardinality(DOMAIN interfaceData.properties_)
    IN /\ Len(table) = 2 + m + g + p
       /\ table[1].kind = "start"
       /\ Section(table, 1, {"method"}, interfaceData.methods_)
       /\ Section(table, 1 + m, {"signal"}, interfaceData.signals_)
       /\ Section(table, 1 + m + g, {"property", "writable_property"},
                  interfaceData.properties_)
       /\ table[Len(table)].kind = "end"

\* C15: the vtable_ an interface has after a finishRegistration that built it
\* is: start, one item per method, one per signal, one per property, end, every
\* member of the interface once: 2 + |methods| + |signals| + |properties| items.
C15_TableLayout ==
    [][(IsCall /\ last'.op = "finishRegistration")
          => \A i \in DOMAIN interfaces' :
                \/ i \in DOMAIN interfaces /\ interfaces'[i].vtable_ = interfaces[i].vtable_
                \/ HasLayout(interfaces'[i].vtable_, interfaces'[i])]_vars

SlotsOf(tr, interfaceName) ==
    {slot \in DOMAIN tr : tr[slot].interface = interfaceName}

\* C17: a registration call does nothing to the transport and nothing is
\* installed before the first finishRegistration; when a finishRegistration
\* returns, every interface of the registry has exactly one table installed,
\* under the slot its entry holds, and nothing else is installed.
C17_InstallOnlyAtFinalize ==
    [][/\ (IsCall /\ last'.op \in RegisterOps)
            => /\ installed' = installed
               /\ removeCalls' = removeCalls
               /\ nextSlot' = nextSlot
       /\ finishCalls' = 0 => installed' = EmptyMap
       /\ (IsCall /\ last'.op = "finishRegistration" /\ last'.end = "returned")
            => /\ \A i \in DOMAIN interfaces' :
                     SlotsOf(installed', i) = {interfaces'[i].slot_}
               /\ \A slot \in DOMAIN installed' :
                     installed'[slot].interface \in DOMAIN interfaces']_vars

\* a first finishRegistration returned with a table installed for each of two interfaces
C17_Witness ==
    /\ last.op = "finishRegistration"
    /\ last.end = "returned"
    /\ finishCalls = 1
    /\ Cardinality(DOMAIN interfaces) = 2
    /\ Cardinality(DOMAIN installed) = 2

\* C18: no entry point call uses registry data that the destruction of the
\* Object has released: a call that is past its lookup when the slots are
\* released completes on data that is still there.
C18_NoDispatchOnReleasedData ==
    last.op \in EntryPoints => last.end # "use_after_free"

\* the member map after holds what the map before held and the new name
AddsOne(before, after, name) ==
    /\ name \notin DOMAIN before
    /\ DOMAIN after = (DOMAIN before) \cup {name}
    /\ \A x \in DOMAIN before : after[x] = before[x]

\* C19: a registration that succeeds adds one entry, under the name given, to
\* the map of its category in the interface given, and changes nothing else:
\* not the interface's two other maps, its table or its slot, and no other
\* interface. (A name may so be held as method, signal and property at once.)
C19_RegistrationChangesOneMap ==
    [][(IsCall /\ last'.op \in RegisterOps /\ last'.error = NoError)
          => LET name == last'.interface
                 old == IF name \in DOMAIN interfaces THEN interfaces[name]
                        ELSE InterfaceData
                 new == interfaces'[name]
             IN /\ DOMAIN interfaces' = (DOMAIN interfaces) \cup {name}
                /\ \A i \in (DOMAIN interfaces) \ {name} : interfaces'[i] = interfaces[i]
                /\ AddsOne(MembersOf(old, last'.op), MembersOf(new, last'.op), last'.member)
                /\ last'.op # "registerMethod" => new.methods_ = old.methods_
                /\ last'.op # "registerSignal" => new.signals_ = old.signals_
                /\ last'.op # "registerProperty" => new.properties_ = old.properties_
                /\ new.vtable_ = old.vtable_
                /\ new.slot_ = old.slot_]_vars

\* one interface holds Volume as a method, as a signal and as a property
C19_Witness ==
    /\ last.op \in RegisterOps
    /\ last.error = NoError
    /\ \E i \in DOMAIN interfaces :
          /\ "Volume" \in DOMAIN interfaces[i].methods_
          /\ "Volume" \in DOMAIN interfaces[i].signals_
          /\ "Volume" \in DOMAIN interfaces[i].properties_

\* the table is not empty, starts with the start item and ends with the end item
IsBuilt(vtable) ==
    /\ vtable # <<>>
    /\ vtable[1].kind = "start"
    /\ vtable[Len(vtable)].kind = "end"

\* C20: an interface entry holds a slot only if its vtable_ is built, and every
\* installed slot is that of an interface of the registry whose vtable_ is
\* built; also after a finishRegistration that an install failure interrupted.
C20_SlotOnlyWithTable ==
    /\ \A i \in DOMAIN interfaces :
          interfaces[i].slot_ # NullSlot => IsBuilt(interfaces[i].vtable_)
    /\ \A slot \in DOMAIN installed :
          /\ installed[slot].interface \in DOMAIN interfaces
          /\ IsBuilt(interfaces[installed[slot].interface].vtable_)

\* a finishRegistration was interrupted by an install failure after it had
\* installed one interface: another has its table built and holds no slot
C20_Witness ==
    /\ last.op = "finishRegistration"
    /\ last.end = "threw"
    /\ \E i, j \in DOMAIN interfaces :
          /\ interfaces[i].slot_ # NullSlot
          /\ interfaces[j].slot_ = NullSlot
          /\ interfaces[j].vtable_ # <<>>
====
